---- MODULE Spec2Model ----
(***************************************************************************)
(* Model of dashboard_with_Plotly_Dash/spacex_dash_app-kbs.py: a Dash      *)
(* page with a launch-site dropdown and a payload range slider, and two    *)
(* callbacks, update_pie_chart and update_scatter_chart, which compute a   *)
(* pie figure and a scatter figure from the table spacex_df.               *)
(*                                                                         *)
(* Payload masses are fixed-point numbers: a payload p stands for          *)
(* p / Precision kilograms, so that a table can hold masses that are not   *)
(* whole kilograms and int() is a real truncation.  Slider values and the  *)
(* bounds passed to the callbacks are whole kilograms.                     *)
(***************************************************************************)
EXTENDS Integers, Sequences, FiniteSets, Bags

(* ------------------------------ bounds --------------------------------- *)

\* largest number of rows of the loaded table
MaxRows == 2

\* payload units per kilogram
Precision == 2

\* largest number of changes the user makes to the controls of a page
MaxChanges == 2

(* --------------------------- input domains ----------------------------- *)

ALL == "ALL"

\* launch sites of the rows, in sorted() order
SiteOrder == <<"siteA", "siteB">>

Sites == {SiteOrder[i] : i \in 1..Len(SiteOrder)}

\* a dropdown value that is the launch site of no row
UnknownSite == "siteX"

\* payload masses of the rows: a fraction of a kg, 100 kg, a fraction above 200 kg
PayloadChoices == {1, 100 * Precision, 200 * Precision + 1}

\* value of the booster field when the table has no such column
NoColumn == "absent"

\* ranges <<low, high>> (whole kg, low <= high) passed to direct calls of
\* update_scatter_chart
RangeChoices == {<<0, 100>>, <<100, 100>>, <<100, 201>>, <<0, 201>>}

\* <<site, payload, class>> of the launches of the tables the page is served
\* from: 0.5 kg, 200.5 kg, 100 kg, 100 kg
LaunchKinds ==
    {<<"siteA", 1, 1>>, <<"siteA", 200 * Precision + 1, 0>>,
     <<"siteB", 100 * Precision, 1>>, <<"siteB", 100 * Precision, 0>>}

(* ------------------------------ helpers -------------------------------- *)

RECURSIVE SumSeq(_)
SumSeq(s) == IF s = <<>> THEN 0 ELSE Head(s) + SumSeq(Tail(s))

Range(s) == {s[i] : i \in 1..Len(s)}

\* number of positions of s holding v
Count(s, v) == Cardinality({i \in 1..Len(s) : s[i] = v})

Column(df, name) == [i \in 1..Len(df) |-> df[i][name]]

\* Series.unique(): the distinct values in order of first appearance
RECURSIVE unique(_)
unique(s) ==
    IF s = <<>> THEN <<>>
    ELSE LET front == unique(SubSeq(s, 1, Len(s) - 1))
             last  == s[Len(s)]
         IN IF last \in Range(front) THEN front ELSE Append(front, last)

\* Python int() of a non-negative payload mass: truncation to whole kg
int(x) == x \div Precision

\* Series.max() / Series.min() of the payload column, in payload units
max_payload(df) ==
    CHOOSE m \in Range(Column(df, "payload")) :
        \A x \in Range(Column(df, "payload")) : x <= m

min_payload(df) ==
    CHOOSE m \in Range(Column(df, "payload")) :
        \A x \in Range(Column(df, "payload")) : m <= x

\* Series.between(left, right), inclusive="both"; left and right in whole kg
between(x, left, right) == left * Precision <= x /\ x <= right * Precision

\* sorted(spacex_df["Launch Site"].unique()) behind the "ALL" option
site_options(df) ==
    <<ALL>> \o SelectSeq(SiteOrder, LAMBDA s : s \in Range(Column(df, "site")))

(* --------------------------- figures ----------------------------------- *)

\* the figure property of a dcc.Graph that no callback has filled yet
NoFigure == [kind |-> "none"]

\* px.pie(frame, names=..., title=...): one label per row, no values
px_pie_names(labels, title) ==
    [kind |-> "pie", title |-> title, labels |-> labels,
     has_values |-> FALSE, values |-> <<>>]

\* px.pie(frame, names=..., values=..., title=...)
px_pie_values(labels, values, title) ==
    [kind |-> "pie", title |-> title, labels |-> labels,
     has_values |-> TRUE, values |-> values]

\* the sectors a pie trace renders: duplicated labels are merged, their
\* values summed, or their occurrences counted when the trace has no values
Segments(fig) ==
    [l \in Range(fig.labels) |->
        IF fig.has_values
        THEN SumSeq([i \in 1..Len(fig.labels) |->
                        IF fig.labels[i] = l THEN fig.values[i] ELSE 0])
        ELSE Count(fig.labels, l)]

\* sum of the sector values of a pie figure
RECURSIVE SumOver(_, _)
SumOver(f, S) ==
    IF S = {} THEN 0
    ELSE LET l == CHOOSE l \in S : TRUE IN f[l] + SumOver(f, S \ {l})

SegmentTotal(fig) == SumOver(Segments(fig), DOMAIN Segments(fig))

\* one marker of a scatter trace: x, y and the two hover_data columns
Point(r) == [x |-> r.payload, y |-> r.class, flight |-> r.flight, site |-> r.site]

\* px.scatter(frame, x, y, color, title, hover_data): with a colour column one
\* trace per category in order of first appearance, else a single trace
px_scatter(frame, color_col, title) ==
    [kind |-> "scatter", title |-> title, color |-> color_col,
     traces |->
        IF color_col = NoColumn
        THEN << [name |-> "", points |-> [i \in 1..Len(frame) |-> Point(frame[i])]] >>
        ELSE LET cats == unique(Column(frame, "booster"))
             IN [k \in 1..Len(cats) |->
                    LET part == SelectSeq(frame, LAMBDA r : r.booster = cats[k])
                    IN [name |-> cats[k],
                        points |-> [i \in 1..Len(part) |-> Point(part[i])]]]]

\* all markers of a scatter figure
RECURSIVE Flatten(_)
Flatten(traces) ==
    IF traces = <<>> THEN <<>> ELSE Head(traces).points \o Flatten(Tail(traces))

Points(fig) == Flatten(fig.traces)

(* ------------------------------ names ---------------------------------- *)

\* the frames bound to the module's global spacex_df and to the local names
\* of the callbacks; <<>> for a name not bound yet
Namespace(df) ==
    [spacex_df |-> df, success_df |-> <<>>, filtered_df |-> <<>>,
     outcome_counts |-> <<>>]

\* name = value: binds the name to the new frame and touches no other name
\* (indexing with a mask and value_counts().reset_index() return new frames)
assign(ns, name, value) == [ns EXCEPT ![name] = value]

(* --------------------------- update_pie_chart -------------------------- *)

\* variant of success_df: the class filter left out
success_df_all(df) == df

\* variant of success_df: the filter keeps the failures
success_df_failures(df) == SelectSeq(df, LAMBDA r : r.class = 0)

\* spacex_df[spacex_df["class"] == 1]
success_df(df) == SelectSeq(df, LAMBDA r : r.class = 1)

\* variant of pie_filtered_df: a site without rows falls back to the whole table
pie_filtered_df_fallback(df, selected_site) ==
    IF selected_site \in Range(Column(df, "site"))
    THEN SelectSeq(df, LAMBDA r : r.site = selected_site)
    ELSE df

\* spacex_df[spacex_df["Launch Site"] == selected_site]
pie_filtered_df(df, selected_site) ==
    SelectSeq(df, LAMBDA r : r.site = selected_site)

\* Series.value_counts().reset_index(): one row per distinct value, by
\* descending count, equal counts in order of first appearance
RECURSIVE sort_counts(_)
sort_counts(rows) ==
    IF rows = <<>> THEN <<>>
    ELSE LET i == CHOOSE i \in 1..Len(rows) :
                    /\ \A j \in 1..Len(rows) : rows[j].count <= rows[i].count
                    /\ \A j \in 1..(i - 1) : rows[j].count < rows[i].count
         IN <<rows[i]>> \o
            sort_counts(SubSeq(rows, 1, i - 1) \o SubSeq(rows, i + 1, Len(rows)))

value_counts(col) ==
    LET vals == unique(col)
    IN sort_counts([k \in 1..Len(vals) |->
                        [outcome |-> vals[k], count |-> Count(col, vals[k])]])

\* variant of outcome_map: the two labels exchanged
outcome_map_swapped(c) == IF c = 1 THEN "Failure" ELSE "Success"

\* outcome_map = {1: "Success", 0: "Failure"}
outcome_map(c) == IF c = 1 THEN "Success" ELSE "Failure"

\* variant of pie_filtered_name: the filtered frame assigned to the global
pie_filtered_name_global == "spacex_df"

\* the name the filtered frame of the site branch is assigned to
pie_filtered_name == "filtered_df"

\* the names after the body of update_pie_chart has run on table df
pie_namespace(df, selected_site) ==
    LET ns0 == Namespace(df)
    IN IF selected_site = ALL
       THEN assign(ns0, "success_df", success_df(ns0.spacex_df))
       ELSE LET ns1 == assign(ns0, pie_filtered_name,
                              pie_filtered_df(ns0.spacex_df, selected_site))
                ns2 == assign(ns1, "outcome_counts",
                              value_counts(Column(ns1[pie_filtered_name], "class")))
            \* outcome_counts["outcome"] = ...map(outcome_map): in place
            IN [ns2 EXCEPT !.outcome_counts =
                    [k \in 1..Len(ns2.outcome_counts) |->
                        [outcome |-> outcome_map(ns2.outcome_counts[k].outcome),
                         count   |-> ns2.outcome_counts[k].count]]]

update_pie_chart(df, selected_site) ==
    LET ns == pie_namespace(df, selected_site)
    IN IF selected_site = ALL
       THEN px_pie_names(Column(ns.success_df, "site"),
                         <<"Total Successful Launches by Site">>)
       ELSE px_pie_values(Column(ns.outcome_counts, "outcome"),
                          Column(ns.outcome_counts, "count"),
                          <<"Launch Outcomes for ", selected_site>>)

\* the table update_pie_chart builds before charting
pie_underlying_df(df, selected_site) ==
    IF selected_site = ALL THEN success_df(df) ELSE pie_filtered_df(df, selected_site)

(* ------------------------- update_scatter_chart ------------------------ *)

\* variant of payload_filtered: both bounds exclusive
payload_filtered_exclusive(df, low, high) ==
    SelectSeq(df, LAMBDA r : low * Precision < r.payload /\ r.payload < high * Precision)

\* mask = spacex_df["Payload Mass (kg)"].between(low, high); spacex_df[mask]
payload_filtered(df, low, high) ==
    SelectSeq(df, LAMBDA r : between(r.payload, low, high))

\* variant of scatter_site_filter: the site is never applied
scatter_site_filter_none(filtered_df, selected_site) == filtered_df

\* if selected_site != "ALL": filtered_df[filtered_df["Launch Site"] == selected_site]
scatter_site_filter(filtered_df, selected_site) ==
    IF selected_site # ALL
    THEN SelectSeq(filtered_df, LAMBDA r : r.site = selected_site)
    ELSE filtered_df

\* "Booster Version Category" if it is a column of spacex_df, else None
color_col(df) == IF df[1].booster = NoColumn THEN NoColumn ELSE "Booster Version Category"

\* the names after the body of update_scatter_chart has run on table df
scatter_namespace(df, selected_site, payload_range) ==
    LET low  == payload_range[1]
        high == payload_range[2]
        ns0  == Namespace(df)
        ns1  == assign(ns0, "filtered_df", payload_filtered(ns0.spacex_df, low, high))
    IN assign(ns1, "filtered_df", scatter_site_filter(ns1.filtered_df, selected_site))

update_scatter_chart(df, selected_site, payload_range) ==
    LET ns == scatter_namespace(df, selected_site, payload_range)
    IN px_scatter(ns.filtered_df, color_col(df), <<"Payload vs. Launch Outcome">>)

(* ------------------------------ layout --------------------------------- *)

\* RangeSlider step
step == 100

\* RangeSlider min and max, in whole kg
slider_min(df) == int(min_payload(df))

slider_max(df) == int(max_payload(df))

\* the values a slider handle can rest on: min + k * step up to max, and the marks
slider_positions(df) ==
    LET lo == slider_min(df)
        hi == slider_max(df)
    IN {lo + k * step : k \in 0..((hi - lo) \div step)} \cup {lo, hi}

\* variant of update_pie_chart_inputs: the callback bound to the slider
update_pie_chart_inputs_wrong == {"payload-slider"}

\* Input(...) of the update_pie_chart callback
update_pie_chart_inputs == {"site-dropdown"}

\* variant of update_scatter_chart_inputs: the slider not declared as Input
update_scatter_chart_inputs_wrong == {"site-dropdown"}

\* Input(...) list of the update_scatter_chart callback
update_scatter_chart_inputs == {"site-dropdown", "payload-slider"}

\* the global spacex_df once a call of update_pie_chart has returned
table_after_pie(df, selected_site) == pie_namespace(df, selected_site).spacex_df

\* the global spacex_df once a call of update_scatter_chart has returned
table_after_scatter(df, selected_site, payload_range) ==
    scatter_namespace(df, selected_site, payload_range).spacex_df

(* ------------------------------- state --------------------------------- *)

VARIABLES
    spacex_df,       \* the loaded table: a sequence of launch records
    loaded,          \* a browser has rendered the layout
    site_value,      \* value of the site-dropdown
    payload_value,   \* value of the payload-slider, <<low, high>> in whole kg
    pie_figure,      \* figure of success-pie-chart; for a callback called on
                     \* its own, the figure the last call returned
    scatter_figure,  \* figure of success-payload-scatter-chart
    pie_args,        \* arguments of the last call of update_pie_chart, <<>> if none
    scatter_args,    \* arguments of the last call of update_scatter_chart
    pie_pending,     \* arguments of the update_pie_chart request the browser
                     \* awaits the response of, or <<>>
    scatter_pending, \* the same for update_scatter_chart
    pie_response,    \* <<figure>> once the server has served the awaited
                     \* update_pie_chart request and the response is on its way
                     \* to the browser, else <<>>
    scatter_response, \* the same for update_scatter_chart
    pie_superseded,  \* bag of the arguments of the update_pie_chart requests
                     \* replaced by a later one before the server served them
    scatter_superseded, \* the same for update_scatter_chart
    changes,         \* number of changes the user has made to the controls
    earlier,         \* an earlier call kept for comparison: <<callback, arguments,
                     \* returned figure>>, or <<>>
    repeated         \* the callback whose last call had the callback and the
                     \* arguments of the call kept in earlier, or "none"

vars == <<spacex_df, loaded, site_value, payload_value, pie_figure,
          scatter_figure, pie_args, scatter_args, pie_pending, scatter_pending,
          pie_response, scatter_response, pie_superseded, scatter_superseded,
          changes, earlier, repeated>>

\* the tables pd.read_csv can return here: 1..MaxRows launch records numbered
\* by flight, any site, payload and class in each, with or without a booster
\* category column (when present, flight 1 flew a v1.0 booster and later
\* flights an FT booster)
Tables ==
    UNION {
        {[i \in 1..n |->
            [flight |-> i, site |-> f[i][1], payload |-> f[i][2], class |-> f[i][3],
             booster |-> IF ~c THEN NoColumn ELSE IF i = 1 THEN "v1.0" ELSE "FT"]] :
            f \in [1..n -> Sites \X PayloadChoices \X {0, 1}], c \in BOOLEAN}
        : n \in 1..MaxRows}

\* the tables the page is served from: those of Tables made of launches of
\* the kinds of LaunchKinds
PageTables ==
    {t \in Tables :
        \A i \in 1..Len(t) : <<t[i].site, t[i].payload, t[i].class>> \in LaunchKinds}

\* module level code: read the table, build the layout with its default values
Layout ==
    /\ loaded = FALSE
    /\ site_value = ALL
    /\ payload_value = <<int(min_payload(spacex_df)), int(max_payload(spacex_df))>>
    /\ pie_figure = NoFigure
    /\ scatter_figure = NoFigure
    /\ pie_args = <<>>
    /\ scatter_args = <<>>
    /\ pie_pending = <<>>
    /\ scatter_pending = <<>>
    /\ pie_response = <<>>
    /\ scatter_response = <<>>
    /\ pie_superseded = EmptyBag
    /\ scatter_superseded = EmptyBag
    /\ changes = 0
    /\ earlier = <<>>
    /\ repeated = "none"

\* the tables the browser's page is served from: those of PageTables with a
\* booster category column whose launches are listed by payload mass, failed
\* before successful at equal mass, no two alike
ServedTables ==
    {t \in PageTables :
        /\ \A i \in 1..Len(t) : t[i].booster # NoColumn
        /\ \A i \in 1..Len(t) : \A j \in (i + 1)..Len(t) :
              \/ t[i].payload < t[j].payload
              \/ t[i].payload = t[j].payload /\ t[i].class < t[j].class}

Init == spacex_df \in ServedTables /\ Layout

\* update_pie_chart is called on its own: pie_figure holds the figure it returns
RunPie(selected_site) ==
    /\ pie_figure' = update_pie_chart(spacex_df, selected_site)
    /\ pie_args' = <<selected_site>>
    /\ spacex_df' = table_after_pie(spacex_df, selected_site)

\* update_scatter_chart is called on its own: scatter_figure holds the figure
\* it returns
RunScatter(selected_site, payload_range) ==
    /\ scatter_figure' = update_scatter_chart(spacex_df, selected_site, payload_range)
    /\ scatter_args' = <<selected_site, payload_range>>
    /\ spacex_df' = table_after_scatter(spacex_df, selected_site, payload_range)

\* the browser requests every callback having one of the changed properties
\* as Input, each with the current values of all its inputs.  A request of a
\* callback replaces the one the browser awaits: the response of the replaced
\* request is dropped when it arrives (so it is taken off the network here),
\* and a replaced request the server has not served yet is still served
Dispatch(changed, site, range) ==
    /\ IF update_pie_chart_inputs \cap changed # {}
       THEN /\ pie_pending' = <<site>>
            /\ pie_response' = <<>>
            /\ pie_superseded' =
                  IF pie_pending # <<>> /\ pie_response = <<>>
                  THEN pie_superseded (+) SetToBag({pie_pending})
                  ELSE pie_superseded
       ELSE UNCHANGED <<pie_pending, pie_response, pie_superseded>>
    /\ IF update_scatter_chart_inputs \cap changed # {}
       THEN /\ scatter_pending' = <<site, range>>
            /\ scatter_response' = <<>>
            /\ scatter_superseded' =
                  IF scatter_pending # <<>> /\ scatter_response = <<>>
                  THEN scatter_superseded (+) SetToBag({scatter_pending})
                  ELSE scatter_superseded
       ELSE UNCHANGED <<scatter_pending, scatter_response, scatter_superseded>>

\* a browser renders the layout and requests every callback once with the
\* layout's values
PageLoad ==
    /\ ~loaded
    /\ loaded' = TRUE
    /\ Dispatch({"site-dropdown", "payload-slider"}, site_value, payload_value)
    /\ UNCHANGED <<spacex_df, site_value, payload_value, pie_figure,
                   scatter_figure, pie_args, scatter_args, changes, earlier,
                   repeated>>

\* the user picks another option of the dropdown
DropdownChange(s) ==
    /\ loaded
    /\ changes < MaxChanges
    /\ s \in Range(site_options(spacex_df))
    /\ s # site_value
    /\ site_value' = s
    /\ changes' = changes + 1
    /\ Dispatch({"site-dropdown"}, s, payload_value)
    /\ UNCHANGED <<spacex_df, loaded, payload_value, pie_figure,
                   scatter_figure, pie_args, scatter_args, earlier, repeated>>

\* the user releases a slider handle on another position (allowCross=False)
SliderChange(low, high) ==
    /\ loaded
    /\ changes < MaxChanges
    /\ {low, high} \subseteq slider_positions(spacex_df)
    /\ low <= high
    /\ <<low, high>> # payload_value
    /\ payload_value' = <<low, high>>
    /\ changes' = changes + 1
    /\ Dispatch({"payload-slider"}, site_value, <<low, high>>)
    /\ UNCHANGED <<spacex_df, loaded, site_value, pie_figure,
                   scatter_figure, pie_args, scatter_args, earlier, repeated>>

\* the server serves the update_pie_chart request the browser awaits: it
\* calls the callback and sends the figure
PieServe ==
    /\ pie_pending # <<>>
    /\ pie_response = <<>>
    /\ pie_response' = <<update_pie_chart(spacex_df, pie_pending[1])>>
    /\ pie_args' = pie_pending
    /\ spacex_df' = table_after_pie(spacex_df, pie_pending[1])
    /\ UNCHANGED <<loaded, site_value, payload_value, pie_figure,
                   scatter_figure, scatter_args, pie_pending, scatter_pending,
                   scatter_response, pie_superseded, scatter_superseded,
                   changes, earlier, repeated>>

\* the server serves an update_pie_chart request replaced meanwhile: it calls
\* the callback, and the browser drops the response
PieServeSuperseded(arguments) ==
    /\ BagIn(arguments, pie_superseded)
    /\ pie_superseded' = pie_superseded (-) SetToBag({arguments})
    /\ pie_args' = arguments
    /\ spacex_df' = table_after_pie(spacex_df, arguments[1])
    /\ UNCHANGED <<loaded, site_value, payload_value, pie_figure,
                   scatter_figure, scatter_args, pie_pending, scatter_pending,
                   pie_response, scatter_response, scatter_superseded,
                   changes, earlier, repeated>>

\* the browser receives the response of the update_pie_chart request it
\* awaits and puts the figure in success-pie-chart
PieShow ==
    /\ pie_response # <<>>
    /\ pie_figure' = pie_response[1]
    /\ pie_response' = <<>>
    /\ pie_pending' = <<>>
    /\ UNCHANGED <<spacex_df, loaded, site_value, payload_value,
                   scatter_figure, pie_args, scatter_args, scatter_pending,
                   scatter_response, pie_superseded, scatter_superseded,
                   changes, earlier, repeated>>

\* the server serves the update_scatter_chart request the browser awaits
ScatterServe ==
    /\ scatter_pending # <<>>
    /\ scatter_response = <<>>
    /\ scatter_response' =
          <<update_scatter_chart(spacex_df, scatter_pending[1], scatter_pending[2])>>
    /\ scatter_args' = scatter_pending
    /\ spacex_df' =
          table_after_scatter(spacex_df, scatter_pending[1], scatter_pending[2])
    /\ UNCHANGED <<loaded, site_value, payload_value, pie_figure,
                   scatter_figure, pie_args, pie_pending, scatter_pending,
                   pie_response, pie_superseded, scatter_superseded,
                   changes, earlier, repeated>>

\* the server serves an update_scatter_chart request replaced meanwhile
ScatterServeSuperseded(arguments) ==
    /\ BagIn(arguments, scatter_superseded)
    /\ scatter_superseded' = scatter_superseded (-) SetToBag({arguments})
    /\ scatter_args' = arguments
    /\ spacex_df' = table_after_scatter(spacex_df, arguments[1], arguments[2])
    /\ UNCHANGED <<loaded, site_value, payload_value, pie_figure,
                   scatter_figure, pie_args, pie_pending, scatter_pending,
                   pie_response, scatter_response, pie_superseded,
                   changes, earlier, repeated>>

\* the browser receives the response of the update_scatter_chart request it
\* awaits and puts the figure in success-payload-scatter-chart
ScatterShow ==
    /\ scatter_response # <<>>
    /\ scatter_figure' = scatter_response[1]
    /\ scatter_response' = <<>>
    /\ scatter_pending' = <<>>
    /\ UNCHANGED <<spacex_df, loaded, site_value, payload_value,
                   pie_figure, pie_args, scatter_args, pie_pending,
                   pie_response, pie_superseded, scatter_superseded,
                   changes, earlier, repeated>>

Next ==
    \/ PageLoad
    \/ \E s \in Sites \cup {ALL} : DropdownChange(s)
    \/ \E low \in slider_positions(spacex_df) :
        \E high \in slider_positions(spacex_df) : SliderChange(low, high)
    \/ PieServe
    \/ \E arguments \in BagToSet(pie_superseded) : PieServeSuperseded(arguments)
    \/ PieShow
    \/ ScatterServe
    \/ \E arguments \in BagToSet(scatter_superseded) :
        ScatterServeSuperseded(arguments)
    \/ ScatterShow

Spec == Init /\ [][Next]_vars

InitCalls == spacex_df \in Tables /\ Layout

\* update_pie_chart called on its own with any site value, known or not
CallPie(s) ==
    /\ RunPie(s)
    /\ UNCHANGED <<loaded, site_value, payload_value, scatter_figure,
                   scatter_args, pie_pending, scatter_pending, pie_response,
                   scatter_response, pie_superseded, scatter_superseded,
                   changes, earlier, repeated>>

\* update_scatter_chart called on its own with any site value and a range
CallScatter(s, payload_range) ==
    /\ RunScatter(s, payload_range)
    /\ UNCHANGED <<loaded, site_value, payload_value, pie_figure,
                   pie_args, pie_pending, scatter_pending, pie_response,
                   scatter_response, pie_superseded, scatter_superseded,
                   changes, earlier, repeated>>

NextCalls ==
    \/ \E s \in Sites \cup {ALL, UnknownSite} : CallPie(s)
    \/ \E s \in Sites \cup {ALL, UnknownSite} :
        \E r \in RangeChoices : CallScatter(s, r)

SpecCalls == InitCalls /\ [][NextCalls]_vars

\* the call <<callback, arguments>> has the callback and arguments of the
\* call kept in earlier
Repeats(callback, arguments) ==
    /\ earlier # <<>>
    /\ earlier[1] = callback
    /\ earlier[2] = arguments

\* a call of update_pie_chart among other calls; while no call is kept yet,
\* this one and the figure it returns may be kept
PieCall(s, keep) ==
    /\ keep => earlier = <<>>
    /\ RunPie(s)
    /\ repeated' = IF Repeats("pie", <<s>>) THEN "pie" ELSE "none"
    /\ earlier' = IF keep THEN <<"pie", <<s>>, update_pie_chart(spacex_df, s)>>
                          ELSE earlier
    /\ UNCHANGED <<loaded, site_value, payload_value, scatter_figure,
                   scatter_args, pie_pending, scatter_pending, pie_response,
                   scatter_response, pie_superseded, scatter_superseded,
                   changes>>

\* a call of update_scatter_chart among other calls, kept or not likewise
ScatterCall(s, payload_range, keep) ==
    /\ keep => earlier = <<>>
    /\ RunScatter(s, payload_range)
    /\ repeated' = IF Repeats("scatter", <<s, payload_range>>)
                   THEN "scatter" ELSE "none"
    /\ earlier' = IF keep
                  THEN <<"scatter", <<s, payload_range>>,
                         update_scatter_chart(spacex_df, s, payload_range)>>
                  ELSE earlier
    /\ UNCHANGED <<loaded, site_value, payload_value, pie_figure,
                   pie_args, pie_pending, scatter_pending, pie_response,
                   scatter_response, pie_superseded, scatter_superseded,
                   changes>>

NextRepeat ==
    \/ \E s \in Sites \cup {ALL, UnknownSite} : \E keep \in BOOLEAN : PieCall(s, keep)
    \/ \E s \in Sites \cup {ALL, UnknownSite} : \E r \in RangeChoices :
        \E keep \in BOOLEAN : ScatterCall(s, r, keep)

InitRepeat == spacex_df \in PageTables /\ Layout

\* calls of the two callbacks in any order, on the tables of PageTables
SpecRepeat == InitRepeat /\ [][NextRepeat]_vars

(* ------------------------- derived quantities -------------------------- *)

\* number of rows of df satisfying P
Rows(df, P(_)) == Cardinality({i \in 1..Len(df) : P(df[i])})

\* the range [low, high] (whole kg) covers every payload of the table
CoversSpan(df, low, high) ==
    low * Precision <= min_payload(df) /\ max_payload(df) <= high * Precision

\* a site value the dropdown can hold
ValidSite(df, s) == s \in Range(site_options(df))

(* --------------------------------- C1 ---------------------------------- *)

\* C1: for a valid site selection the sector values of the pie chart sum to
\* the number of matching rows: the rows with class = 1 for "ALL", all rows of
\* the site for a specific site.
PieSumIsRowCount ==
    (pie_args # <<>> /\ ValidSite(spacex_df, pie_args[1])) =>
        SegmentTotal(pie_figure) =
            IF pie_args[1] = ALL
            THEN Rows(spacex_df, LAMBDA r : r.class = 1)
            ELSE Rows(spacex_df, LAMBDA r : r.site = pie_args[1])

PieSumWitness ==
    /\ pie_args = <<ALL>>
    /\ Rows(spacex_df, LAMBDA r : r.class = 0) >= 1
    /\ SegmentTotal(pie_figure) >= 1

(* --------------------------------- C2 ---------------------------------- *)

\* C2: for "ALL" the pie chart has exactly one sector per launch site having a
\* row with class = 1, valued with that site's number of such rows; a site
\* without success has no sector.
AllSitesSegments ==
    pie_args = <<ALL>> =>
        /\ DOMAIN Segments(pie_figure) =
              {s \in Sites : Rows(spacex_df, LAMBDA r : r.site = s /\ r.class = 1) >= 1}
        /\ \A s \in DOMAIN Segments(pie_figure) :
              Segments(pie_figure)[s] =
                  Rows(spacex_df, LAMBDA r : r.site = s /\ r.class = 1)

AllSitesWitness ==
    /\ pie_args = <<ALL>>
    /\ Cardinality(DOMAIN Segments(pie_figure)) = 1
    /\ Cardinality(Range(Column(spacex_df, "site"))) = 2

(* --------------------------------- C3 ---------------------------------- *)

\* the rows the scatter chart has to show for site s and range [low, high]
InRange(df, s, low, high) ==
    {i \in 1..Len(df) :
        /\ low * Precision <= df[i].payload
        /\ df[i].payload <= high * Precision
        /\ (s # ALL => df[i].site = s)}

\* C3: the points of the scatter chart are exactly the rows with
\* low <= payload <= high (both inclusive) and, for a site other than "ALL",
\* of the selected site: none outside, none missing, none twice.
ScatterExactlyInRange ==
    scatter_args # <<>> =>
        LET s    == scatter_args[1]
            low  == scatter_args[2][1]
            high == scatter_args[2][2]
            pts  == Points(scatter_figure)
        IN /\ {pts[k].flight : k \in 1..Len(pts)} = InRange(spacex_df, s, low, high)
           /\ Len(pts) = Cardinality(InRange(spacex_df, s, low, high))
           /\ \A k \in 1..Len(pts) : pts[k] = Point(spacex_df[pts[k].flight])

\* a row on the upper bound is shown, a row above it is not
ScatterWitness ==
    /\ scatter_args = <<ALL, <<0, 100>>>>
    /\ Len(Points(scatter_figure)) = 1
    /\ Points(scatter_figure)[1].x = 100 * Precision
    /\ Len(spacex_df) = 2

(* --------------------------------- C4 ---------------------------------- *)

\* C4 as claimed: for every site selection, "ALL" included, with a range
\* covering the whole payload span the scatter chart has at most as many
\* points as the table update_pie_chart builds for that selection has rows.
ScatterAtMostPieRows ==
    (scatter_args # <<>> /\
     CoversSpan(spacex_df, scatter_args[2][1], scatter_args[2][2])) =>
        Len(Points(scatter_figure)) <=
            Len(pie_underlying_df(spacex_df, scatter_args[1]))

\* C4 amended: the same for every site selection other than "ALL".
ScatterAtMostPieRowsOfSite ==
    (scatter_args # <<>> /\ scatter_args[1] # ALL /\
     CoversSpan(spacex_df, scatter_args[2][1], scatter_args[2][2])) =>
        Len(Points(scatter_figure)) <=
            Len(pie_underlying_df(spacex_df, scatter_args[1]))

ScatterAtMostWitness ==
    /\ scatter_args # <<>>
    /\ scatter_args[1] = "siteA"
    /\ CoversSpan(spacex_df, scatter_args[2][1], scatter_args[2][2])
    /\ Len(Points(scatter_figure)) = 1
    /\ Len(spacex_df) = 2

(* --------------------------------- C5 ---------------------------------- *)

\* C5: for a site value that is neither "ALL" nor the site of any row, both
\* callbacks return an empty chart: a pie without sectors and a scatter
\* without points, whatever the payload range.
UnknownSiteEmpty ==
    /\ (pie_args # <<>> /\ ~ValidSite(spacex_df, pie_args[1])) =>
          /\ pie_figure.kind = "pie"
          /\ DOMAIN Segments(pie_figure) = {}
    /\ (scatter_args # <<>> /\ ~ValidSite(spacex_df, scatter_args[1])) =>
          /\ scatter_figure.kind = "scatter"
          /\ Points(scatter_figure) = <<>>

UnknownSiteWitness ==
    /\ pie_args = <<UnknownSite>>
    /\ scatter_args # <<>>
    /\ scatter_args[1] = UnknownSite
    /\ CoversSpan(spacex_df, scatter_args[2][1], scatter_args[2][2])
    /\ pie_figure.labels = <<>>
    /\ Points(scatter_figure) = <<>>

(* --------------------------------- C6 ---------------------------------- *)

\* C6: for a specific site the sectors are "Success" and "Failure", valued
\* with the site's numbers of rows with class = 1 and class = 0, a label being
\* present only when its number is positive, and the title holds the site.
SiteOutcomeSegments ==
    (pie_args # <<>> /\ pie_args[1] # ALL) =>
        LET s    == pie_args[1]
            succ == Rows(spacex_df, LAMBDA r : r.site = s /\ r.class = 1)
            fail == Rows(spacex_df, LAMBDA r : r.site = s /\ r.class = 0)
            seg  == Segments(pie_figure)
        IN /\ DOMAIN seg = {l \in {"Success"} : succ > 0} \cup
                           {l \in {"Failure"} : fail > 0}
           /\ succ > 0 => seg["Success"] = succ
           /\ fail > 0 => seg["Failure"] = fail
           /\ \E k \in 1..Len(pie_figure.title) : pie_figure.title[k] = s

SiteOutcomeWitness ==
    /\ pie_args = <<"siteA">>
    /\ DOMAIN Segments(pie_figure) = {"Success", "Failure"}
    /\ Segments(pie_figure)["Success"] = 1
    /\ Segments(pie_figure)["Failure"] = 1

(* --------------------------------- C7 ---------------------------------- *)

\* C7: the selected payload range [lower, upper] always has lower <= upper,
\* dataset min payload <= lower and upper <= dataset max payload, and the
\* default range of the layout is [dataset min, dataset max].
RangeWithinDataset ==
    /\ payload_value[1] <= payload_value[2]
    /\ min_payload(spacex_df) <= payload_value[1] * Precision
    /\ payload_value[2] * Precision <= max_payload(spacex_df)
    /\ ~loaded => /\ payload_value[1] * Precision = min_payload(spacex_df)
                  /\ payload_value[2] * Precision = max_payload(spacex_df)

(* --------------------------------- C8 ---------------------------------- *)

\* C8: each callback is idempotent and leaves the table unchanged: a call
\* with the arguments of an earlier call of the same callback, whatever calls
\* of either callback came in between, returns the figure the earlier call
\* returned, and spacex_df is the same before and after every call.
Idempotent ==
    /\ [](repeated = "pie" => pie_figure = earlier[3])
    /\ [](repeated = "scatter" => scatter_figure = earlier[3])
    /\ [][spacex_df' = spacex_df]_vars

\* update_scatter_chart called again with the arguments of a kept call that
\* showed one of the two rows, update_pie_chart called for a site as well
IdempotentWitness ==
    /\ repeated = "scatter"
    /\ earlier[2] = scatter_args
    /\ Len(Points(earlier[3])) = 1
    /\ pie_args # <<>>
    /\ pie_args[1] # ALL
    /\ Len(spacex_df) = 2

(* --------------------------------- C9 ---------------------------------- *)

\* C9: once the page is rendered, whenever the change events have been
\* handled to completion (no request of the graph's callback is in flight)
\* the pie chart shown is update_pie_chart of the selected site and the
\* scatter chart shown is update_scatter_chart of the selected site and the
\* selected payload range: no graph is left with the chart of a stale
\* selection.
ChartsFollowWhenSettled ==
    loaded =>
        /\ pie_pending = <<>> =>
              pie_figure = update_pie_chart(spacex_df, site_value)
        /\ scatter_pending = <<>> =>
              scatter_figure =
                  update_scatter_chart(spacex_df, site_value, payload_value)

ChartsFollowWitness ==
    /\ loaded
    /\ pie_pending = <<>>
    /\ scatter_pending = <<>>
    /\ site_value = "siteB"
    /\ payload_value # <<slider_min(spacex_df), slider_max(spacex_df)>>
    /\ Len(Points(scatter_figure)) = 1

(* --------------------------------- C10 --------------------------------- *)

\* C10: a slider change leaves the pie chart as it is, requests no
\* update_pie_chart and requests update_scatter_chart with the new range; a
\* dropdown change requests both callbacks with the new site; and a graph
\* changes only to the figure its callback returns for the requested
\* arguments, the pie's being a site alone.
SliderLeavesPie ==
    [][/\ payload_value' # payload_value =>
            /\ pie_figure' = pie_figure
            /\ pie_pending' = pie_pending
            /\ scatter_pending' = <<site_value, payload_value'>>
       /\ site_value' # site_value =>
            /\ pie_pending' = <<site_value'>>
            /\ scatter_pending' = <<site_value', payload_value>>
       /\ pie_figure' # pie_figure =>
            /\ pie_pending # <<>>
            /\ pie_figure' = update_pie_chart(spacex_df, pie_pending[1])
       /\ scatter_figure' # scatter_figure =>
            /\ scatter_pending # <<>>
            /\ scatter_figure' =
                  update_scatter_chart(spacex_df, scatter_pending[1],
                                       scatter_pending[2])]_vars

SliderLeavesPieWitness ==
    /\ loaded
    /\ site_value = "siteA"
    /\ payload_value # <<slider_min(spacex_df), slider_max(spacex_df)>>
    /\ pie_pending = <<>>
    /\ scatter_pending = <<>>
    /\ pie_args = <<"siteA">>
    /\ scatter_args = <<"siteA", payload_value>>

====
